---- MODULE Spec2Model ----
\* The completion command layer of the readline shell (completion.go) and the
\* candidate-set primitives (internal/completion/values.go).
\*
\* Strings that the code inspects character by character (the line buffer, a
\* candidate's Value) are sequences of one-character strings.  Names that the
\* code only compares (tags, keymap names, hint text) are TLA+ strings.
EXTENDS Integers, Sequences, FiniteSets, TLC

VARIABLES
    completer,     \* rl.completer: the completion engine's session
    line,          \* rl.line: the input line buffer
    cursor,        \* rl.cursor: cursor position in the line, 0..Len(line)
    keymaps,       \* rl.keymaps: the local keymap
    hint,          \* rl.hint: the hint text
    histories,     \* rl.histories: the history sources and the current one
    trace,         \* the collaborator calls made by the last command, in order
    lastCmd,       \* the command that has just run, "none" once the shell reads on
    etIn,          \* EachTag: the receiver c
    etOut,         \* EachTag: the calls made to tagF, in order
    etPc,          \* EachTag: "idle" | "ready" | "done"
    fp,            \* FilterPrefix: receiver, arguments and results of two calls
    mg,            \* Merge: the receiver c, the last argument, the calls made
    steps          \* Select(+1) calls made in a row since the session opened

vars == <<completer, line, cursor, keymaps, hint, histories,
          trace, lastCmd, etIn, etOut, etPc, fp, mg, steps>>

\* The variables of the command layer, and those of the functions of values.go.
shellVars == <<completer, line, cursor, keymaps, hint, histories, trace, lastCmd>>

valueVars == <<etIn, etOut, etPc, fp, mg>>

\* ---------------------------------------------------------------- bounds

MaxCands == 2      \* candidates returned by one producer call
MaxLine == 2       \* line buffer length
MaxSources == 2    \* history sources bound to the shell
MaxLen == 3        \* length of EachTag's receiver
MaxFilter == 2     \* length of FilterPrefix's receiver
MaxMerges == 2     \* Merge calls on one receiver
MaxSteps == 4      \* menu-complete calls in a row

InitLen == MaxLine - 1   \* length of the line typed before the first command

\* ---------------------------------------------------------------- data

Alphabet == <<"x", "y", "z", "w", "v">>
Values == {<<"a">>, <<"b">>}
Tags == {"f", "g"}
SourceNames == <<"h1", "h2", "h3", "h4">>
RegisterTag == "registers"

Candidate == [Value : Values, Tag : Tags]

SeqsUpTo(S, n) == UNION {[1..k -> S] : k \in 0..n}

IsInjective(q) == \A i, j \in 1..Len(q) : q[i] = q[j] => i = j

\* The candidates of the menu: two of one tag and one of another.
MenuCandidate == {c \in Candidate : c.Tag = "f" \/ c.Value = <<"a">>}

\* What a producer may return: candidates whose Value is unique within its tag.
Bundles == {q \in SeqsUpTo(MenuCandidate, MaxCands) : IsInjective(q)}

\* rl.Completer: nil, or a function that returns comps for the line and cursor.
Completers ==
    {[nil |-> TRUE, comps |-> <<>>]} \cup {[nil |-> FALSE, comps |-> b] : b \in Bundles}

NoCompleter == [nil |-> TRUE, comps |-> <<>>]

ValueSeqs == {q \in SeqsUpTo(Values, MaxCands) : IsInjective(q)}

Tagged(vals, tag) == [i \in 1..Len(vals) |-> [Value |-> vals[i], Tag |-> tag]]

\* keymap.MenuSelect, keymap.Isearch, and no local keymap.
MenuSelect == "menu-select"
Isearch == "isearch"
NoLocal == ""

NoSourceHint == "No command history source"
NoHint == ""

\* ---------------------------------------------------------------- values.go

\* The first loop of EachTag, from index i on: tags is the slice of tags in
\* first-seen order, tagGroups the map from tag to its values.
RECURSIVE EachTagGroups(_, _, _, _)
EachTagGroups(c, i, tags, tagGroups) ==
    IF i > Len(c) THEN [tags |-> tags, tagGroups |-> tagGroups]
    ELSE LET val == c[i]
             exists == val.Tag \in DOMAIN tagGroups
             made == IF exists THEN tagGroups ELSE (val.Tag :> <<>>) @@ tagGroups
             tags1 == IF exists THEN tags ELSE Append(tags, val.Tag)
             groups1 == [made EXCEPT ![val.Tag] = Append(@, val)]
         IN EachTagGroups(c, i + 1, tags1, groups1)

\* A plausible slip: the second loop walks the tags backwards.
EachTagReversed(c) ==
    LET r == EachTagGroups(c, 1, <<>>, <<>>)
        n == Len(r.tags)
    IN [k \in 1..n |-> [tag |-> r.tags[n + 1 - k], values |-> r.tagGroups[r.tags[n + 1 - k]]]]

\* RawValues.EachTag: the sequence of calls tagF(tag, values) it makes.
EachTag(c) ==
    LET r == EachTagGroups(c, 1, <<>>, <<>>)
    IN [k \in 1..Len(r.tags) |-> [tag |-> r.tags[k], values |-> r.tagGroups[r.tags[k]]]]

\* Values and prefixes for FilterPrefix: letters in both cases.
FilterValues ==
    {<<"A", "B", "C">>, <<"a", "b", "c">>, <<"a", "B">>, <<"b", "a">>, <<"a">>}

FilterPrefixes ==
    {<<>>, <<"a", "b">>, <<"A", "B">>, <<"a">>, <<"B">>, <<"a", "b", "c", "d">>}

FilterCandidate == [Value : FilterValues, Tag : {"f"}]

\* strings.ToLower, rune by rune.
ToLowerRune(r) ==
    CASE r = "A" -> "a" [] r = "B" -> "b" [] r = "C" -> "c" [] r = "D" -> "d" [] OTHER -> r

ToLower(str) == [i \in DOMAIN str |-> ToLowerRune(str[i])]

\* strings.HasPrefix.
HasPrefix(str, prefix) ==
    Len(str) >= Len(prefix) /\ SubSeq(str, 1, Len(prefix)) = prefix

\* The loop of FilterPrefix from index i on; prefix is already lower-cased
\* when matchCase is false.
RECURSIVE FilterPrefixLoop(_, _, _, _, _)
FilterPrefixLoop(c, i, prefix, matchCase, filtered) ==
    IF i > Len(c) THEN filtered
    ELSE LET raw == c[i]
             val == IF ~matchCase THEN ToLower(raw.Value) ELSE raw.Value
         IN FilterPrefixLoop(c, i + 1, prefix, matchCase,
                             IF HasPrefix(val, prefix) THEN Append(filtered, raw)
                             ELSE filtered)

\* A plausible slip: the loop starts at the second value.
FilterPrefixSkipFirst(c, prefix, matchCase) ==
    IF prefix = <<>> THEN c
    ELSE FilterPrefixLoop(c, 2, IF ~matchCase THEN ToLower(prefix) ELSE prefix,
                          matchCase, <<>>)

\* A plausible slip: only the prefix is lower-cased, not the value.
FilterPrefixFoldPrefixOnly(c, prefix, matchCase) ==
    IF prefix = <<>> THEN c
    ELSE FilterPrefixLoop(c, 1, IF ~matchCase THEN ToLower(prefix) ELSE prefix,
                          TRUE, <<>>)

\* RawValues.FilterPrefix.
FilterPrefix(c, prefix, matchCase) ==
    IF prefix = <<>> THEN c
    ELSE FilterPrefixLoop(c, 1, IF ~matchCase THEN ToLower(prefix) ELSE prefix,
                          matchCase, <<>>)

\* The fields of Values that Merge reads and writes. ListLong is a Go map
\* from tag to bool: nil when it was never made, else its keys and the keys
\* that map to true.
Usages == {"", "u1", "u2"}

MessageTexts == {"m1", "m2"}

NoSpaceTags == {"f"}

NilMap == [nil |-> TRUE, keys |-> {}, on |-> {}]

ListLongs ==
    {NilMap} \cup {[nil |-> FALSE, keys |-> k, on |-> o] : k \in SUBSET Tags, o \in SUBSET Tags}

MergeValues ==
    {v \in [Usage : Usages, NoSpace : SUBSET NoSpaceTags,
            Messages : SUBSET MessageTexts, ListLong : ListLongs] :
        v.ListLong.on \subseteq v.ListLong.keys}

\* The zero value Values{}.
ZeroValues == [Usage |-> "", NoSpace |-> {}, Messages |-> {}, ListLong |-> NilMap]

\* c.NoSpace.Merge(other.NoSpace) and c.Messages.Merge(other.Messages).
MergeNoSpace(c, other) == c \cup other

MergeMessages(c, other) == c \cup other

\* The loop of Merge over other.ListLong: the tags of other that c does not
\* hold are written into c.ListLong, and a write into a nil map panics.
MergeListLong(c, other) ==
    LET missing == other.keys \ c.keys
    IN IF missing = {} THEN [m |-> c, panicked |-> FALSE]
       ELSE IF c.nil THEN [m |-> c, panicked |-> TRUE]
       ELSE [m |-> [c EXCEPT !.keys = c.keys \cup missing, !.on = c.on \cup missing],
             panicked |-> FALSE]

\* Values.Merge: the receiver after the call, and whether the call panicked.
Merge(c, other) ==
    LET listLong == MergeListLong(c.ListLong, other.ListLong)
    IN [c |-> [Usage |-> IF other.Usage # "" THEN other.Usage ELSE c.Usage,
               NoSpace |-> MergeNoSpace(c.NoSpace, other.NoSpace),
               Messages |-> MergeMessages(c.Messages, other.Messages),
               ListLong |-> listLong.m],
        panicked |-> listLong.panicked]

\* ---------------------------------------------------------------- the shell

\* The shell as one value: what a command reads and what it leaves.
Shell ==
    [completer |-> completer, line |-> line, cursor |-> cursor,
     keymaps |-> keymaps, hint |-> hint, histories |-> histories, trace |-> trace]

\* One collaborator call: its name, its arguments, whether the session was
\* active and a candidate selected when it was made, and (for a producer) the
\* bundle it returned.
Call(s, op, arg, ret) ==
    [s EXCEPT !.trace = Append(@, [op |-> op, arg |-> arg,
                                   active |-> s.completer.active,
                                   inserting |-> s.completer.active /\ s.completer.sel # 0,
                                   ret |-> ret])]

BoolArg(b) == IF b THEN "true" ELSE "false"

\* ---------------------------------------------------------------- collaborators

\* rl.undo.SkipSave(): tells the undo log not to record the command.
SkipSave(s) == Call(s, "SkipSave", <<>>, <<>>)

\* rl.keymaps.SetLocal(mode) and rl.keymaps.Local().
SetLocal(s, mode) == [Call(s, "SetLocal", <<mode>>, <<>>) EXCEPT !.keymaps = mode]

Local(s) == s.keymaps

\* rl.hint.Set(message) and rl.hint.Reset().
HintSet(s, message) == [Call(s, "HintSet", <<message>>, <<>>) EXCEPT !.hint = message]

HintReset(s) == [Call(s, "HintReset", <<>>, <<>>) EXCEPT !.hint = NoHint]

\* rl.line.Len(), rl.cursor.Pos(), rl.line.CutRune(pos): pos counts from 0.
LineLen(s) == Len(s.line)

Pos(s) == s.cursor

CutRune(s, pos) ==
    [Call(s, "CutRune", <<>>, <<>>) EXCEPT
        !.line = SubSeq(s.line, 1, pos) \o SubSeq(s.line, pos + 2, Len(s.line))]

\* The history provider: n sources, the current one at index pos (from 0).
Current(s) == IF s.histories.n = 0 THEN "nil" ELSE SourceNames[s.histories.pos + 1]

OnLastSource(s) == s.histories.n > 0 /\ s.histories.pos = s.histories.n - 1

Name(s) == Current(s)

Cycle(s, next) ==
    LET h == s.histories
        p == IF h.n = 0 THEN 0
             ELSE IF next THEN (h.pos + 1) % h.n
             ELSE (h.pos + h.n - 1) % h.n
    IN [Call(s, "Cycle", <<BoolArg(next)>>, <<>>) EXCEPT !.histories.pos = p]

\* rl.histories.Complete(forward, filterLine): the entries vals of the current
\* source, as candidates tagged with the source's name.
Complete(s, vals) == IF s.histories.n = 0 THEN <<>> ELSE Tagged(vals, Name(s))

\* ---------------------------------------------------------------- the engine

NoSearch == [on |-> FALSE, target |-> "", history |-> FALSE]

\* The session when none is open.
Closed ==
    [active |-> FALSE, bundle |-> <<>>, groups |-> <<>>, tagIdx |-> 0, sel |-> 0,
     search |-> NoSearch, forced |-> FALSE]

IsActive(s) == s.completer.active

IsInserting(s) == s.completer.active /\ s.completer.sel # 0

AutoCompleting(s) == s.completer.forced

\* The text of the selected candidate as previewed in the line, <<>> if none.
Inserted(s) ==
    IF IsInserting(s)
    THEN s.completer.groups[s.completer.tagIdx].values[s.completer.sel].Value
    ELSE <<>>

\* The line with the previewed text (which ends at the cursor) taken out.
Unpreviewed(s) ==
    LET n == Len(Inserted(s))
    IN [line |-> SubSeq(s.line, 1, s.cursor - n) \o SubSeq(s.line, s.cursor + 1, Len(s.line)),
        cursor |-> s.cursor - n]

\* The selection moved to candidate sel of tag group tagIdx, previewed in the line.
Preview(s, tagIdx, sel) ==
    LET base == Unpreviewed(s)
        text == s.completer.groups[tagIdx].values[sel].Value
    IN [s EXCEPT !.completer.tagIdx = tagIdx,
                 !.completer.sel = sel,
                 !.line = SubSeq(base.line, 1, base.cursor) \o text
                          \o SubSeq(base.line, base.cursor + 1, Len(base.line)),
                 !.cursor = base.cursor + Len(text)]

\* generate_with(producer): comps is what the producer returns when invoked.
GenerateWith(s, producer, arg, comps) ==
    LET t == Call(s, "GenerateWith", <<producer>>, <<>>)
    IN IF IsActive(s) THEN t
       ELSE LET u == Call(t, producer, arg, comps)
            IN IF comps = <<>> THEN u
               ELSE [u EXCEPT !.completer.active = TRUE,
                              !.completer.bundle = comps,
                              !.completer.groups = EachTag(comps),
                              !.completer.tagIdx = 1,
                              !.completer.sel = 0]

\* select(step, tag_hint): within the active tag group, wrapping at its ends.
Select(s, step, tagHint) ==
    LET t == Call(s, "Select", <<IF step > 0 THEN "+1" ELSE "-1">>, <<>>)
        c == s.completer
        k == Len(c.groups[c.tagIdx].values)
        to == IF c.sel = 0 THEN (IF step > 0 THEN 1 ELSE k)
              ELSE ((c.sel - 1 + step + k) % k) + 1
    IN IF ~IsActive(s) THEN t ELSE Preview(t, c.tagIdx, to)

\* select_tag(forward): the first candidate of the next (previous) tag group.
SelectTag(s, forward) ==
    LET t == Call(s, "SelectTag", <<BoolArg(forward)>>, <<>>)
        c == s.completer
        n == Len(c.groups)
        to == IF forward THEN (c.tagIdx % n) + 1 ELSE ((c.tagIdx + n - 2) % n) + 1
    IN IF ~IsActive(s) THEN t ELSE Preview(t, to, 1)

\* cancel(clear_line, restore_original): closes the session.  Every call of
\* completion.go passes restore_original = false, so the line as it was before
\* the session is not kept.
Cancel(s, clearLine, restoreOriginal) ==
    LET t == Call(s, "Cancel", <<BoolArg(clearLine), BoolArg(restoreOriginal)>>, <<>>)
        kept == IF clearLine THEN Unpreviewed(s)
                ELSE [line |-> s.line, cursor |-> s.cursor]
    IN [t EXCEPT !.completer = Closed, !.line = kept.line, !.cursor = kept.cursor]

\* isearch_start(target_name, history_mode).
IsearchStart(s, name, history) ==
    [Call(s, "IsearchStart", <<name, BoolArg(history)>>, <<>>) EXCEPT
        !.completer.search = [on |-> TRUE, target |-> name, history |-> history]]

\* autocomplete_force().
AutocompleteForce(s) ==
    [Call(s, "AutocompleteForce", <<>>, <<>>) EXCEPT !.completer.forced = TRUE]

\* The forced close of history-completion: the session is reset.
ResetForce(s) == [Call(s, "ResetForce", <<>>, <<>>) EXCEPT !.completer = Closed]

\* ---------------------------------------------------------------- completion.go

\* commandCompletion: user is rl.Completer.
commandCompletion(s, user) == IF user.nil THEN <<>> ELSE user.comps

startMenuComplete(s, producer, arg, comps) ==
    GenerateWith(SetLocal(SkipSave(s), MenuSelect), producer, arg, comps)

\* A plausible slip: complete-word made identical to menu-complete.
completeWordAsMenu(s, user) ==
    LET t == SkipSave(s)
    IN IF ~IsActive(t)
       THEN startMenuComplete(t, "commandCompletion", <<>>, commandCompletion(t, user))
       ELSE Select(t, 1, 0)

completeWord(s, user) ==
    LET t == SkipSave(s)
        u == IF ~IsActive(t)
             THEN startMenuComplete(t, "commandCompletion", <<>>, commandCompletion(t, user))
             ELSE t
    IN Select(u, 1, 0)

\* A plausible slip: the cancel clears the previewed candidate from the line.
possibleCompletionsClearing(s, user) ==
    LET t == SetLocal(Cancel(SkipSave(s), TRUE, FALSE), MenuSelect)
    IN GenerateWith(t, "commandCompletion", <<>>, commandCompletion(t, user))

possibleCompletions(s, user) ==
    LET t == SetLocal(Cancel(SkipSave(s), FALSE, FALSE), MenuSelect)
    IN GenerateWith(t, "commandCompletion", <<>>, commandCompletion(t, user))

insertCompletions(s) == s

\* A plausible slip: the else branch is lost, every call reopens.
menuCompleteReopening(s, user) ==
    LET t == SkipSave(s)
    IN startMenuComplete(t, "commandCompletion", <<>>, commandCompletion(t, user))

\* A plausible slip: the step of menu-complete-backward.
menuCompleteStepBack(s, user) ==
    LET t == SkipSave(s)
    IN IF ~IsActive(t)
       THEN startMenuComplete(t, "commandCompletion", <<>>, commandCompletion(t, user))
       ELSE Select(t, -1, 0)

menuComplete(s, user) ==
    LET t == SkipSave(s)
    IN IF ~IsActive(t)
       THEN startMenuComplete(t, "commandCompletion", <<>>, commandCompletion(t, user))
       ELSE Select(t, 1, 0)

\* A plausible slip: <= for <.
deleteCharOrListAtEnd(s, user) ==
    IF Pos(s) <= LineLen(s) THEN CutRune(s, Pos(s)) ELSE possibleCompletions(s, user)

deleteCharOrList(s, user) ==
    IF Pos(s) < LineLen(s) THEN CutRune(s, Pos(s)) ELSE possibleCompletions(s, user)

menuCompleteBackward(s) ==
    LET t == SkipSave(s)
    IN IF ~IsActive(t) THEN t ELSE Select(t, -1, 0)

menuCompleteNextTag(s) ==
    LET t == SkipSave(s)
    IN IF ~IsActive(t) THEN t ELSE SelectTag(t, TRUE)

menuCompletePrevTag(s) ==
    LET t == SkipSave(s)
    IN IF ~IsActive(t) THEN t ELSE SelectTag(t, FALSE)

\* A plausible slip: the IsInserting check is lost.
acceptAndMenuCompleteUnchecked(s) ==
    LET t == SkipSave(s)
    IN IF ~IsActive(t) THEN t
       ELSE Select(Cancel(t, FALSE, FALSE), 1, 0)

acceptAndMenuComplete(s) ==
    LET t == SkipSave(s)
    IN IF ~IsActive(t) THEN t
       ELSE IF ~IsInserting(t) THEN t
       ELSE Select(Cancel(t, FALSE, FALSE), 1, 0)

\* regs is what rl.buffers.Complete returns: the populated registers.
viRegistersComplete(s, regs) ==
    LET t == SkipSave(s)
    IN IF ~IsActive(t)
       THEN startMenuComplete(t, "buffers.Complete", <<>>, Tagged(regs, RegisterTag))
       ELSE Select(t, 1, 0)

\* A plausible slip: the session is closed and listed again, as
\* possible-completions does.
menuIncrementalSearchRelisting(s, user) ==
    LET t == Cancel(SkipSave(s), FALSE, FALSE)
        u == GenerateWith(t, "commandCompletion", <<>>, commandCompletion(t, user))
    IN IsearchStart(u, "completions", FALSE)

menuIncrementalSearch(s, user) ==
    LET t == SkipSave(s)
        u == IF ~IsActive(t)
             THEN GenerateWith(t, "commandCompletion", <<>>, commandCompletion(t, user))
             ELSE t
    IN IsearchStart(u, "completions", FALSE)

\* A plausible slip: the check for a missing history source is lost.
historyCompletionDefaultUnchecked(s, forward, filterLine, incremental, vals) ==
    LET arg == <<>>
    IN IF incremental
       THEN IsearchStart(GenerateWith(s, "histories.Complete", arg, Complete(s, vals)),
                         Name(s), TRUE)
       ELSE AutocompleteForce(
                startMenuComplete(s, "histories.Complete", arg, Complete(s, vals)))

\* The default: case of historyCompletion (also reached by fallthrough).
historyCompletionDefault(s, forward, filterLine, incremental, vals) ==
    LET arg == <<>>
    IN IF Current(s) = "nil" THEN HintSet(s, NoSourceHint)
       ELSE IF incremental
       THEN IsearchStart(GenerateWith(s, "histories.Complete", arg, Complete(s, vals)),
                         Name(s), TRUE)
       ELSE AutocompleteForce(
                startMenuComplete(s, "histories.Complete", arg, Complete(s, vals)))

\* A plausible slip: the return of the last-source case is lost.
historyCompletionNoReturn(s, forward, filterLine, incremental, vals) ==
    IF Local(s) = MenuSelect \/ Local(s) = Isearch \/ AutoCompleting(s)
    THEN IF OnLastSource(s)
         THEN historyCompletionDefault(HintReset(ResetForce(Cycle(s, TRUE))),
                                       forward, filterLine, incremental, vals)
         ELSE historyCompletionDefault(Cycle(s, TRUE), forward, filterLine, incremental, vals)
    ELSE historyCompletionDefault(s, forward, filterLine, incremental, vals)

\* vals are the entries the current source yields for (forward, filterLine).
historyCompletion(s, forward, filterLine, incremental, vals) ==
    IF Local(s) = MenuSelect \/ Local(s) = Isearch \/ AutoCompleting(s)
    THEN IF OnLastSource(s) THEN HintReset(ResetForce(Cycle(s, TRUE)))
         ELSE historyCompletionDefault(Cycle(s, TRUE), forward, filterLine, incremental, vals)
    ELSE historyCompletionDefault(s, forward, filterLine, incremental, vals)

\* ---------------------------------------------------------------- actions

\* The shell on entry to a command: no collaborator call made yet.
Entry == [Shell EXCEPT !.trace = <<>>]

\* The shell is between two commands.
Idle == etPc = "idle" /\ lastCmd = "none"

\* Command name ran and left the shell as r.
Ran(name, r) ==
    /\ Len(r.line) <= MaxLine
    /\ completer' = r.completer
    /\ line' = r.line
    /\ cursor' = r.cursor
    /\ keymaps' = r.keymaps
    /\ hint' = r.hint
    /\ histories' = r.histories
    /\ trace' = r.trace
    /\ lastCmd' = name
    /\ UNCHANGED valueVars

Run(name, r) ==
    /\ Ran(name, r)
    /\ UNCHANGED steps

\* The producers, as named in a call.
Producers == {"commandCompletion", "buffers.Complete", "histories.Complete"}

Invoked(r) == \E i \in DOMAIN r.trace : r.trace[i].op \in Producers

\* The results to consider for a command's producer: all of S when the command
\* (which left r for the empty result) invokes it, and one otherwise, since
\* the result of a producer that is not invoked is not read.
Offered(r, S, none) == IF Invoked(r) THEN S ELSE {none}

CompleteWord ==
    /\ Idle
    /\ \E user \in Offered(completeWord(Entry, NoCompleter), Completers, NoCompleter) :
           Run("completeWord", completeWord(Entry, user))

PossibleCompletions ==
    /\ Idle
    /\ \E user \in Offered(possibleCompletions(Entry, NoCompleter), Completers, NoCompleter) :
           Run("possibleCompletions", possibleCompletions(Entry, user))

InsertCompletions ==
    /\ Idle
    /\ Run("insertCompletions", insertCompletions(Entry))

MenuComplete ==
    /\ Idle
    /\ \E user \in Offered(menuComplete(Entry, NoCompleter), Completers, NoCompleter) :
           Run("menuComplete", menuComplete(Entry, user))

DeleteCharOrList ==
    /\ Idle
    /\ \E user \in Offered(deleteCharOrList(Entry, NoCompleter), Completers, NoCompleter) :
           Run("deleteCharOrList", deleteCharOrList(Entry, user))

MenuCompleteBackward ==
    /\ Idle
    /\ Run("menuCompleteBackward", menuCompleteBackward(Entry))

MenuCompleteNextTag ==
    /\ Idle
    /\ Run("menuCompleteNextTag", menuCompleteNextTag(Entry))

MenuCompletePrevTag ==
    /\ Idle
    /\ Run("menuCompletePrevTag", menuCompletePrevTag(Entry))

AcceptAndMenuComplete ==
    /\ Idle
    /\ Run("acceptAndMenuComplete", acceptAndMenuComplete(Entry))

ViRegistersComplete ==
    /\ Idle
    /\ \E regs \in Offered(viRegistersComplete(Entry, <<>>), ValueSeqs, <<>>) :
           Run("viRegistersComplete", viRegistersComplete(Entry, regs))

MenuIncrementalSearch ==
    /\ Idle
    /\ \E user \in Offered(menuIncrementalSearch(Entry, NoCompleter), Completers, NoCompleter) :
           Run("menuIncrementalSearch", menuIncrementalSearch(Entry, user))

HistoryCompletion ==
    /\ Idle
    /\ \E forward, filterLine, incremental \in BOOLEAN :
         \E vals \in Offered(historyCompletion(Entry, forward, filterLine, incremental, <<>>),
                             ValueSeqs, <<>>) :
           Run("historyCompletion",
               historyCompletion(Entry, forward, filterLine, incremental, vals))

\* The key dispatcher of the surrounding shell switches the local keymap: to
\* isearch while a search is on, to none once the session is closed.
KeymapSwitch ==
    /\ Idle
    /\ \E mode \in {NoLocal, Isearch} :
           /\ mode # keymaps
           /\ IF mode = Isearch THEN completer.search.on ELSE ~completer.active
           /\ Run("keymapSwitch", [Entry EXCEPT !.keymaps = mode])

\* The command has returned: the shell reads the next key.
ReadKey ==
    /\ lastCmd # "none"
    /\ lastCmd' = "none"
    /\ trace' = <<>>
    /\ UNCHANGED <<completer, line, cursor, keymaps, hint, histories, steps>>
    /\ UNCHANGED valueVars

\* FilterPrefix and Merge when they are not under study.
NoFilter == [pc |-> "idle", c |-> <<>>, prefix |-> <<>>, matchCase |-> FALSE,
             once |-> <<>>, twice |-> <<>>]

NoMerge == [pc |-> "idle", c |-> ZeroValues, other |-> ZeroValues, calls |-> 0]

\* The line typed before the first command: a prefix of Alphabet.
Init ==
    /\ completer = Closed
    /\ \E k \in 0..InitLen : line = SubSeq(Alphabet, 1, k)
    /\ cursor \in 0..Len(line)
    /\ keymaps = NoLocal
    /\ hint = NoHint
    /\ \E n \in 0..MaxSources : histories = [n |-> n, pos |-> 0]
    /\ trace = <<>>
    /\ lastCmd = "none"
    /\ etIn = <<>>
    /\ etOut = <<>>
    /\ etPc = "idle"
    /\ fp = NoFilter
    /\ mg = NoMerge
    /\ steps = 0

Next ==
    \/ CompleteWord
    \/ PossibleCompletions
    \/ InsertCompletions
    \/ MenuComplete
    \/ DeleteCharOrList
    \/ MenuCompleteBackward
    \/ MenuCompleteNextTag
    \/ MenuCompletePrevTag
    \/ AcceptAndMenuComplete
    \/ ViRegistersComplete
    \/ MenuIncrementalSearch
    \/ HistoryCompletion
    \/ KeymapSwitch
    \/ ReadKey

Spec == Init /\ [][Next]_vars

\* ---------------------------------------------------------------- EachTag alone

\* The command layer at rest, while a function of values.go is studied.
ShellAtRest ==
    /\ completer = Closed
    /\ line = <<>>
    /\ cursor = 0
    /\ keymaps = NoLocal
    /\ hint = NoHint
    /\ histories = [n |-> 0, pos |-> 0]
    /\ trace = <<>>
    /\ lastCmd = "none"
    /\ steps = 0

InitEachTag ==
    /\ ShellAtRest
    /\ etIn \in SeqsUpTo(Candidate, MaxLen)
    /\ etOut = <<>>
    /\ etPc = "ready"
    /\ fp = NoFilter
    /\ mg = NoMerge

\* c.EachTag(tagF) with a tagF that records its arguments.
EachTagCall ==
    /\ etPc = "ready"
    /\ etOut' = EachTag(etIn)
    /\ etPc' = "done"
    /\ UNCHANGED <<etIn, fp, mg, steps>>
    /\ UNCHANGED shellVars

NextEachTag == EachTagCall

SpecEachTag == InitEachTag /\ [][NextEachTag]_vars

\* ---------------------------------------------------------------- FilterPrefix alone

InitFilterPrefix ==
    /\ ShellAtRest
    /\ etIn = <<>>
    /\ etOut = <<>>
    /\ etPc = "off"
    /\ mg = NoMerge
    /\ \E c \in SeqsUpTo(FilterCandidate, MaxFilter), prefix \in FilterPrefixes,
          matchCase \in BOOLEAN :
           fp = [pc |-> "ready", c |-> c, prefix |-> prefix, matchCase |-> matchCase,
                 once |-> <<>>, twice |-> <<>>]

\* c.FilterPrefix(prefix, matchCase).
FilterOnce ==
    /\ fp.pc = "ready"
    /\ fp' = [fp EXCEPT !.pc = "once",
                        !.once = FilterPrefix(fp.c, fp.prefix, fp.matchCase)]
    /\ UNCHANGED <<etIn, etOut, etPc, mg, steps>>
    /\ UNCHANGED shellVars

\* The same call on the result of the first.
FilterTwice ==
    /\ fp.pc = "once"
    /\ fp' = [fp EXCEPT !.pc = "twice",
                        !.twice = FilterPrefix(fp.once, fp.prefix, fp.matchCase)]
    /\ UNCHANGED <<etIn, etOut, etPc, mg, steps>>
    /\ UNCHANGED shellVars

NextFilterPrefix == FilterOnce \/ FilterTwice

SpecFilterPrefix == InitFilterPrefix /\ [][NextFilterPrefix]_vars

\* ---------------------------------------------------------------- Merge alone

InitMerge ==
    /\ ShellAtRest
    /\ etIn = <<>>
    /\ etOut = <<>>
    /\ etPc = "off"
    /\ fp = NoFilter
    /\ \E c \in MergeValues :
           mg = [pc |-> "ready", c |-> c, other |-> ZeroValues, calls |-> 0]

\* c.Merge(other), on the receiver the calls before have left.
MergeCall ==
    /\ mg.pc \in {"ready", "merged"}
    /\ mg.calls < MaxMerges
    /\ \E other \in MergeValues :
           LET r == Merge(mg.c, other)
           IN mg' = [pc |-> IF r.panicked THEN "panicked" ELSE "merged",
                     c |-> r.c, other |-> other, calls |-> mg.calls + 1]
    /\ UNCHANGED <<etIn, etOut, etPc, fp, steps>>
    /\ UNCHANGED shellVars

NextMerge == MergeCall

SpecMerge == InitMerge /\ [][NextMerge]_vars

\* ---------------------------------------------------------------- menu-complete alone

\* menu-complete is the only command bound: each call on an open session is
\* one more Select(+1) since the session opened with no candidate selected.
MenuCompleteAgain ==
    /\ Idle
    /\ steps < MaxSteps
    /\ \E user \in Offered(menuComplete(Entry, NoCompleter), Completers, NoCompleter) :
           Ran("menuComplete", menuComplete(Entry, user))
    /\ steps' = IF completer.active THEN steps + 1 ELSE 0

NextMenuComplete == MenuCompleteAgain \/ ReadKey

SpecMenuComplete == Init /\ [][NextMenuComplete]_vars

\* ---------------------------------------------------------------- reading a trace

\* The names of the calls of a trace, in order.
Ops(tr) == [i \in DOMAIN tr |-> tr[i].op]

\* How often op was called.
Calls(tr, op) == Cardinality({i \in DOMAIN tr : tr[i].op = op})

\* How often a producer was invoked, and what the first invocation returned.
ProducerCalls(tr) == Cardinality({i \in DOMAIN tr : tr[i].op \in Producers})

Produced(tr) == tr[CHOOSE i \in DOMAIN tr : tr[i].op \in Producers].ret

\* The size of the active tag group, and the selection after one step forward.
GroupSize(c) == Len(c.groups[c.tagIdx].values)

StepForward(c) == (c.sel % GroupSize(c)) + 1

\* History completion is entered in menu-select, isearch or forced mode.
InHistoryMenu == keymaps = MenuSelect \/ keymaps = Isearch \/ completer.forced

\* ---------------------------------------------------------------- C1

\* C1: menu-complete on an inactive session invokes the producer once and, when
\* it returns candidates, leaves the session active on that bundle with nothing
\* selected; on an active session it makes exactly one Select(+1), invokes no
\* producer and keeps the bundle, so repeated calls cycle within the session.
C1_MenuCompleteOpensThenAdvances ==
    [][lastCmd' = "menuComplete" =>
        /\ ~completer.active =>
              /\ ProducerCalls(trace') = 1
              /\ Calls(trace', "Select") = 0
              /\ Produced(trace') # <<>> =>
                    /\ completer'.active
                    /\ completer'.sel = 0
                    /\ completer'.bundle = Produced(trace')
        /\ completer.active =>
              /\ ProducerCalls(trace') = 0
              /\ Calls(trace', "Select") = 1
              /\ completer'.active
              /\ completer'.bundle = completer.bundle
              /\ completer'.tagIdx = completer.tagIdx
              /\ completer'.sel = StepForward(completer)]_vars

\* menu-complete has advanced an open session onto its second candidate.
C1_Witness ==
    /\ lastCmd = "menuComplete"
    /\ Calls(trace, "Select") = 1
    /\ ProducerCalls(trace) = 0
    /\ completer.active
    /\ completer.sel = 2

\* ---------------------------------------------------------------- C2

\* Candidates are available to a command: in the open session, or from the
\* producer it invokes.
Available ==
    IF completer.active THEN completer.bundle # <<>>
    ELSE ProducerCalls(trace') = 1 /\ Produced(trace') # <<>>

C3_AcceptKeepsSessionAndAdvances ==
    [][lastCmd' = "acceptAndMenuComplete" /\ completer.active /\ completer.sel # 0 =>
        /\ completer'.active
        /\ completer'.sel = StepForward(completer)
        /\ SubSeq(line', 1, cursor) = SubSeq(line, 1, cursor)]_vars

\* ---------------------------------------------------------------- C4

\* What possible-completions does besides the line: the calls in order, the
\* keymap, one producer invocation, the fresh bundle with nothing selected.
PossibleCompletionsRelists ==
    /\ Ops(trace') = <<"SkipSave", "Cancel", "SetLocal", "GenerateWith", "commandCompletion">>
    /\ trace'[3].arg = <<MenuSelect>>
    /\ keymaps' = MenuSelect
    /\ ProducerCalls(trace') = 1
    /\ completer'.bundle = Produced(trace')
    /\ completer'.active = (Produced(trace') # <<>>)
    /\ completer'.sel = 0

\* C4 as claimed: possible-completions cancels the session without committing
\* the previewed candidate to the line, then sets the keymap, then regenerates.
C4_PossibleCompletionsDropsPreview ==
    [][lastCmd' = "possibleCompletions" =>
        /\ line' = Unpreviewed(Shell).line
        /\ PossibleCompletionsRelists]_vars

\* C4 as amended: possible-completions cancels the session, leaving the line
\* as it is (a previewed candidate's text stays in it), then sets the local
\* keymap to menu-select, then invokes the primary producer exactly once; the
\* session holds the fresh bundle with no candidate selected.
C4_PossibleCompletionsKeepsLine ==
    [][lastCmd' = "possibleCompletions" =>
        /\ line' = line
        /\ cursor' = cursor
        /\ PossibleCompletionsRelists]_vars

\* possible-completions has relisted over a session with a previewed candidate.
C4_Witness ==
    /\ lastCmd = "possibleCompletions"
    /\ Len(trace) = 5
    /\ trace[2].op = "Cancel"
    /\ trace[2].inserting
    /\ completer.active
    /\ completer.sel = 0

\* ---------------------------------------------------------------- C5

C6_NoSourceLeavesInactive ==
    [][lastCmd' = "historyCompletion" /\ histories.n = 0 =>
        /\ hint' = NoSourceHint
        /\ ProducerCalls(trace') = 0
        /\ ~completer'.active]_vars

\* C6 as amended: history-completion without a history source sets the hint,
\* invokes no producer and leaves the session and the line as they were on
\* entry (inactive when it was inactive).
C6_NoSourceLeavesSession ==
    [][lastCmd' = "historyCompletion" /\ histories.n = 0 =>
        /\ hint' = NoSourceHint
        /\ ProducerCalls(trace') = 0
        /\ Calls(trace', "GenerateWith") = 0
        /\ completer' = completer
        /\ line' = line
        /\ cursor' = cursor]_vars

\* history-completion has set the hint with no source, during an open session.
C6_Witness ==
    /\ lastCmd = "historyCompletion"
    /\ histories.n = 0
    /\ hint = NoSourceHint
    /\ completer.active

\* ---------------------------------------------------------------- C7

\* C7: history-completion entered in menu-select, isearch or forced mode on
\* the last source cycles the provider once (back to the first source), closes
\* the session and clears its forced flag, resets the hint, and neither
\* invokes a producer nor opens a session.
C7_HistoryWrapAndExit ==
    [][lastCmd' = "historyCompletion" /\ InHistoryMenu /\ OnLastSource(Shell) =>
        /\ Calls(trace', "Cycle") = 1
        /\ histories'.pos = 0
        /\ ~completer'.active
        /\ ~completer'.forced
        /\ completer'.bundle = <<>>
        /\ hint' = NoHint
        /\ ProducerCalls(trace') = 0
        /\ Calls(trace', "GenerateWith") = 0]_vars

\* history-completion has wrapped from the second of two sources and closed
\* the session that was open.
C7_Witness ==
    /\ lastCmd = "historyCompletion"
    /\ Calls(trace, "ResetForce") = 1
    /\ trace[1].active
    /\ histories = [n |-> 2, pos |-> 0]
    /\ ~completer.active

\* ---------------------------------------------------------------- C8

\* C8: history-completion entered in menu-select, isearch or forced mode off
\* the last source cycles to the next source once and returns with the session
\* holding the bundle the new source produced.
C8_HistoryOpensNextSource ==
    [][lastCmd' = "historyCompletion" /\ InHistoryMenu
            /\ histories.n > 0 /\ ~OnLastSource(Shell) =>
        /\ Calls(trace', "Cycle") = 1
        /\ histories'.pos = histories.pos + 1
        /\ ProducerCalls(trace') = 1
        /\ completer'.bundle = Produced(trace')
        /\ \A i \in DOMAIN completer'.bundle : completer'.bundle[i].Tag = Name(Shell')]_vars

\* ---------------------------------------------------------------- C9

\* A navigation command is run where it is to do nothing.
NavigationOff ==
    \/ /\ lastCmd' \in {"menuCompleteBackward", "menuCompleteNextTag", "menuCompletePrevTag"}
       /\ ~completer.active
    \/ /\ lastCmd' = "acceptAndMenuComplete"
       /\ ~completer.active \/ completer.sel = 0

\* C9: menu-complete-backward, the tag commands and accept-and-menu-complete on
\* an inactive session (accept-and-menu-complete also on an active one with no
\* candidate selected) leave the session, the line, the keymap and the hint
\* unchanged, invoke no producer and open no session.
C9_NavigationNoOp ==
    [][NavigationOff =>
        /\ completer' = completer
        /\ line' = line
        /\ cursor' = cursor
        /\ keymaps' = keymaps
        /\ hint' = hint
        /\ ProducerCalls(trace') = 0
        /\ Calls(trace', "GenerateWith") = 0]_vars

\* accept-and-menu-complete has run on an open session with nothing selected.
C9_Witness ==
    /\ lastCmd = "acceptAndMenuComplete"
    /\ Ops(trace) = <<"SkipSave">>
    /\ completer.active
    /\ completer.sel = 0

\* ---------------------------------------------------------------- C10

\* The index at which tag t first occurs in c.
FirstIndex(c, t) == CHOOSE i \in DOMAIN c : c[i].Tag = t /\ \A j \in 1..(i - 1) : c[j].Tag # t

\* The candidates of c that carry tag t, in the order of c.
WithTag(c, t) == SelectSeq(c, LAMBDA x : x.Tag = t)

\* C10: EachTag calls tagF once per distinct tag, in the order in which the
\* tags first occur in the receiver, each time with exactly the candidates of
\* that tag in their original relative order.
C10_EachTagStable ==
    etPc = "done" =>
        /\ Len(etOut) = Cardinality({etIn[i].Tag : i \in DOMAIN etIn})
        /\ \A i \in DOMAIN etOut : \E k \in DOMAIN etIn : etIn[k].Tag = etOut[i].tag
        /\ \A i, j \in DOMAIN etOut :
              i < j => FirstIndex(etIn, etOut[i].tag) < FirstIndex(etIn, etOut[j].tag)
        /\ \A i \in DOMAIN etOut : etOut[i].values = WithTag(etIn, etOut[i].tag)

\* EachTag has grouped a receiver whose first tag comes back after another tag.
C10_Witness ==
    /\ etPc = "done"
    /\ Len(etIn) = 3
    /\ etIn[1].Tag # etIn[2].Tag
    /\ etIn[1].Tag = etIn[3].Tag
    /\ Len(etOut) = 2
    /\ Len(etOut[1].values) = 2

\* ---------------------------------------------------------------- C11

ABC == [Value |-> <<"A", "B", "C">>, Tag |-> "f"]

abc == [Value |-> <<"a", "b", "c">>, Tag |-> "f"]

\* x is one of the candidates of q.
Holds(q, x) == \E i \in DOMAIN q : q[i] = x

\* FilterPrefix("ab", matchCase) has run on a receiver that holds ABC and abc.
FilteredBothCases ==
    /\ fp.pc # "ready"
    /\ fp.prefix = <<"a", "b">>
    /\ Holds(fp.c, ABC)
    /\ Holds(fp.c, abc)

\* C11 as claimed: on a receiver that holds "ABC" and "abc", FilterPrefix("ab",
\* false) returns both and FilterPrefix("ab", true) returns neither.
C11_CaseFoldNeither ==
    FilteredBothCases =>
        IF fp.matchCase THEN ~Holds(fp.once, ABC) /\ ~Holds(fp.once, abc)
        ELSE Holds(fp.once, ABC) /\ Holds(fp.once, abc)

\* C11 as amended: on a receiver that holds "ABC" and "abc", FilterPrefix("ab",
\* false) returns both, and FilterPrefix("ab", true) returns "abc" (which
\* starts with "ab") and not "ABC".
C11_CaseFoldExact ==
    FilteredBothCases =>
        IF fp.matchCase THEN ~Holds(fp.once, ABC) /\ Holds(fp.once, abc)
        ELSE Holds(fp.once, ABC) /\ Holds(fp.once, abc)

\* FilterPrefix("ab", true) has run on <<ABC, abc>> and kept abc alone.
C11_Witness ==
    /\ fp.pc = "once"
    /\ fp.matchCase
    /\ fp.prefix = <<"a", "b">>
    /\ fp.c = <<ABC, abc>>
    /\ fp.once = <<abc>>

\* ---------------------------------------------------------------- C16

\* C16: FilterPrefix(p, false) applied to its own result returns that result,
\* and FilterPrefix("", c) returns the receiver as it is, for both c.
C16_FilterIdempotentAndIdentity ==
    /\ fp.pc = "twice" /\ ~fp.matchCase => fp.twice = fp.once
    /\ fp.pc # "ready" /\ fp.pc # "idle" /\ fp.prefix = <<>> => fp.once = fp.c

\* FilterPrefix(p, false) has run twice and has dropped a candidate the first
\* time.
C16_Witness ==
    /\ fp.pc = "twice"
    /\ ~fp.matchCase
    /\ fp.prefix # <<>>
    /\ Len(fp.c) = 2
    /\ Len(fp.once) = 1
    /\ fp.twice = fp.once

\* ---------------------------------------------------------------- C12

\* C12 as claimed: every Merge call leaves in the receiver's ListLong and
\* Messages all they held before and all the argument holds, and leaves the
\* argument's Usage when that is not empty, else the Usage held before.
C12_MergeMonotone ==
    [][mg'.calls = mg.calls + 1 =>
        /\ mg.c.ListLong.keys \cup mg'.other.ListLong.keys \subseteq mg'.c.ListLong.keys
        /\ mg.c.Messages \cup mg'.other.Messages \subseteq mg'.c.Messages
        /\ mg'.c.Usage = IF mg'.other.Usage # "" THEN mg'.other.Usage ELSE mg.c.Usage]_vars

\* ---------------------------------------------------------------- C20

\* C20 as claimed: no Merge call panics, and each leaves in the receiver's
\* ListLong the union of the tags of both.
C20_MergeNeverFails ==
    /\ mg.pc # "panicked"
    /\ mg.pc = "merged" => mg.other.ListLong.keys \subseteq mg.c.ListLong.keys

\* ---------------------------------------------------------------- C13

\* C13 as claimed: after k Select(+1) calls from no selection on a tag group
\* of k candidates the first candidate of that group is selected, and no call
\* before has selected a candidate of another group.
C13_WrapAfterK ==
    completer.active /\ steps >= 1 =>
        /\ completer.tagIdx = 1
        /\ steps = GroupSize(completer) => completer.sel = 1

\* C13 as amended: after n >= 1 Select(+1) calls from no selection on a tag
\* group of k candidates, candidate ((n - 1) mod k) + 1 of that group is
\* selected: the last one after k calls, the first one again after k + 1
\* calls, and never a candidate of another group.
C13_WrapAfterKPlusOne ==
    completer.active /\ steps >= 1 =>
        /\ completer.tagIdx = 1
        /\ completer.sel = ((steps - 1) % GroupSize(completer)) + 1

\* A group of two candidates or more is back on its first candidate after
\* one call more than it has candidates.
C13_Witness ==
    /\ completer.active
    /\ GroupSize(completer) >= 2
    /\ steps = GroupSize(completer) + 1
    /\ completer.sel = 1
    /\ completer.tagIdx = 1

\* ---------------------------------------------------------------- C14

\* C14: menu-incremental-search ends with its one IsearchStart("completions",
\* false); before it the primary producer is invoked once when the session
\* was inactive on entry and not at all when it was active, and then the
\* bundle, the selection and the line are those of the entry.
C14_IncrementalSearchStarts ==
    [][lastCmd' = "menuIncrementalSearch" =>
        /\ Calls(trace', "IsearchStart") = 1
        /\ trace'[Len(trace')].op = "IsearchStart"
        /\ trace'[Len(trace')].arg = <<"completions", "false">>
        /\ completer'.search = [on |-> TRUE, target |-> "completions", history |-> FALSE]
        /\ ProducerCalls(trace') = IF completer.active THEN 0 ELSE 1
        /\ Calls(trace', "Cancel") = 0
        /\ completer.active =>
              /\ completer'.active
              /\ completer'.bundle = completer.bundle
              /\ completer'.groups = completer.groups
              /\ completer'.tagIdx = completer.tagIdx
              /\ completer'.sel = completer.sel
              /\ line' = line]_vars

\* menu-incremental-search has run on a session with a candidate selected.
C14_Witness ==
    /\ lastCmd = "menuIncrementalSearch"
    /\ completer.active
    /\ completer.sel > 0
    /\ completer.search.on
    /\ completer.search.target = "completions"
    /\ ProducerCalls(trace) = 0

\* ---------------------------------------------------------------- C15

\* The commands C15 lists.
SkipSaveCommands ==
    {"completeWord", "possibleCompletions", "menuComplete", "menuCompleteBackward",
     "deleteCharOrList", "menuCompleteNextTag", "menuCompletePrevTag",
     "acceptAndMenuComplete", "viRegistersComplete", "menuIncrementalSearch",
     "historyCompletion"}

\* C15 as claimed: the first call every listed command makes is SkipSave, so
\* that SkipSave comes before any change to line, session, keymap or hint.
C15_SkipSaveAtEntry ==
    lastCmd \in SkipSaveCommands => trace # <<>> /\ trace[1].op = "SkipSave"

\* ---------------------------------------------------------------- C17

\* C17 as claimed: Select and SelectTag are called only while the session is
\* active.
C17_SelectOnlyWhenActive ==
    \A i \in DOMAIN trace : trace[i].op \in {"Select", "SelectTag"} => trace[i].active

\* ---------------------------------------------------------------- C18

\* C18 as claimed: while the session is inactive, incremental search is off
\* and the autocomplete-forced flag is not set.
C18_InactiveIsPlain ==
    ~completer.active => ~completer.search.on /\ ~completer.forced

\* ---------------------------------------------------------------- C19

\* C19 as claimed: a command that returns with the session inactive leaves
\* the local keymap on menu-select only if it found it there.
C19_MenuSelectOnlyWithSession ==
    [][lastCmd' \in SkipSaveCommands \cup {"insertCompletions"}
         /\ ~completer'.active /\ keymaps' = MenuSelect
       => keymaps = MenuSelect]_vars

====
